---- MODULE Spec2Model ----
(***************************************************************************)
(* IDF <-> Excel converter: extract_idf_data / write_data_to_excel         *)
(* (src/src/idf_processor.py) and read_excel_data / update_idf_from_excel  *)
(* (src/src/idf_updater.py).                                               *)
(*                                                                         *)
(* Text is modelled by TLA+ strings.  An IDF file is a sequence of object  *)
(* blocks <<key, v1, ..., vn>>; the object graph (idf.idfobjects) maps     *)
(* every object type of the IDD to the sequence of its blocks (obj.obj,    *)
(* whose first element is the key, aligned with obj.fieldnames whose first *)
(* element is "key").  An xlsx file is a sequence of sheets of text cells; *)
(* reading it turns every empty or NA-like cell into NaN.                  *)
(***************************************************************************)
EXTENDS Integers, Sequences, FiniteSets, TLC

(***************************************************************************)
(* Bounds of the model.                                                    *)
(***************************************************************************)
MaxInst == 2
MaxRows == 2
MaxSheets == 2

(***************************************************************************)
(* Python string helpers.                                                  *)
(***************************************************************************)
Char(s, i) == SubSeq(s, i, i)

AlnumText == "ABCDEFGHIJKLMNOPQRSTUVWXYZabcdefghijklmnopqrstuvwxyz0123456789"

\* characters in code-point order, for the comparisons pandas makes when it
\* sorts the group keys
AsciiText == " '/0123456789:ABCDEFGHIJKLMNOPQRSTUVWXYZ_abcdefghijklmnopqrstuvwxyz"

IsAlnum(c) == \E i \in 1..Len(AlnumText) : Char(AlnumText, i) = c

IsSpace(c) == c = " "

Rank(c) == CHOOSE i \in 1..Len(AsciiText) : Char(AsciiText, i) = c

RECURSIVE StrLess(_, _)
StrLess(s, t) ==
    IF Len(t) = 0 THEN FALSE
    ELSE IF Len(s) = 0 THEN TRUE
    ELSE IF Char(s, 1) = Char(t, 1)
         THEN StrLess(SubSeq(s, 2, Len(s)), SubSeq(t, 2, Len(t)))
         ELSE Rank(Char(s, 1)) < Rank(Char(t, 1))

RECURSIVE LStrip(_)
LStrip(s) ==
    IF Len(s) > 0 /\ IsSpace(Char(s, 1)) THEN LStrip(SubSeq(s, 2, Len(s))) ELSE s

RECURSIVE RStrip(_)
RStrip(s) ==
    IF Len(s) > 0 /\ IsSpace(Char(s, Len(s)))
    THEN RStrip(SubSeq(s, 1, Len(s) - 1)) ELSE s

\* str.strip()
Strip(s) == RStrip(LStrip(s))

RECURSIVE KeepSheetChars(_)
KeepSheetChars(s) ==
    IF Len(s) = 0 THEN ""
    ELSE LET c == Char(s, 1)
             rest == KeepSheetChars(SubSeq(s, 2, Len(s)))
         IN  IF IsAlnum(c) \/ c \in {" ", "_"} THEN c \o rest ELSE rest

SheetNameMax == 31

Min(a, b) == IF a < b THEN a ELSE b

\* ''.join(c for c in obj_type if c.isalnum() or c in (' ', '_')).rstrip()[:31]
SanitizeSheetName(obj_type) ==
    LET kept == RStrip(KeepSheetChars(obj_type))
    IN  SubSeq(kept, 1, Min(Len(kept), SheetNameMax))

(***************************************************************************)
(* pandas cells: a cell read from a sheet is NaN or a string.              *)
(***************************************************************************)
NaN == [isnan |-> TRUE, s |-> ""]

StrCell(s) == [isnan |-> FALSE, s |-> s]

\* texts pandas.read_excel reads as NaN (its default na_values; an empty
\* cell is the text "")
NaValues == {"", "N/A", "NA", "NaN", "nan", "null", "NULL", "None", "n/a", "#N/A"}

ReadCell(text) == IF text \in NaValues THEN NaN ELSE StrCell(text)

\* str(x) of a cell value
PyStr(cell) == IF cell.isnan THEN "nan" ELSE cell.s

(***************************************************************************)
(* The IDD (schema): the object types in IDD order and, per type, the      *)
(* field names as eppy's obj.fieldnames gives them ("key" first).          *)
(***************************************************************************)
\* two IDD files: V2.idd declares one more object type than V1.idd
IddPaths == {"V1.idd", "V2.idd"}

IddTypes(idd_path) ==
    IF idd_path = "V2.idd"
    THEN <<"VERSION", "ZONE", "WALL:EXT", "WALLEXT">>
    ELSE <<"VERSION", "ZONE", "WALL:EXT">>

TypeSet(idd_path) == {IddTypes(idd_path)[i] : i \in 1..Len(IddTypes(idd_path))}

IddFieldNames(idd_path) ==
    [T \in TypeSet(idd_path) |->
        CASE T = "VERSION"  -> <<"key", "Version_Identifier">>
          [] T = "ZONE"     -> <<"key", "Name", "Width">>
          [] T = "WALL:EXT" -> <<"key", "Name", "Area">>
          [] T = "WALLEXT"  -> <<"key", "Name", "Area">>]

\* list.index(x): the first position of x
IndexOf(seq, x) == CHOOSE i \in 1..Len(seq) : seq[i] = x /\ \A j \in 1..(i - 1) : seq[j] # x

Contains(seq, x) == \E i \in 1..Len(seq) : seq[i] = x

RECURSIVE Flatten(_)
Flatten(seqs) == IF seqs = <<>> THEN <<>> ELSE Head(seqs) \o Flatten(Tail(seqs))

(***************************************************************************)
(* eppy: IDF(file) builds idfobjects, one entry per IDD type, holding the  *)
(* blocks of that type in file order; saveas writes the objects type by    *)
(* type in IDD order.                                                      *)
(***************************************************************************)
NoFile == [exists |-> FALSE]

IdfFile(blocks) == [exists |-> TRUE, tokenizable |-> TRUE, blocks |-> blocks]

BadIdfFile == [exists |-> TRUE, tokenizable |-> FALSE, blocks |-> <<>>]

ParseOk(file, idd_path) ==
    /\ file.tokenizable
    /\ \A i \in 1..Len(file.blocks) : file.blocks[i][1] \in TypeSet(idd_path)

ParseIdf(file, idd_path) ==
    [T \in TypeSet(idd_path) |->
        LET IsT(b) == b[1] = T IN SelectSeq(file.blocks, IsT)]

SaveIdf(idfobjects, idd_path) ==
    IdfFile(Flatten([i \in 1..Len(IddTypes(idd_path)) |->
                        idfobjects[IddTypes(idd_path)[i]]]))

\* hasattr(obj, 'Name')
HasName(field_names) == Contains(field_names, "Name")

\* obj.Name (eppy gives '' for a field the object does not populate)
NameOf(obj, field_names) ==
    LET i == IndexOf(field_names, "Name")
    IN  IF i <= Len(obj) THEN obj[i] ELSE ""

(***************************************************************************)
(* extract_idf_data: the flat records per object type, as the ordered      *)
(* dict all_sheets_data (a sequence of [obj_type, data] entries).          *)
(***************************************************************************)
\* fault: the field names are taken one position too far
ObjectRecordsShifted(obj, field_names) ==
    [i \in 1..Min(Len(obj), Len(field_names)) |->
        [ObjectName |-> IF HasName(field_names) THEN NameOf(obj, field_names) ELSE "N/A",
         FieldName  |-> field_names[Min(i + 1, Len(field_names))],
         Value      |-> obj[i],
         Unit       |-> ""]]

ObjectRecords(obj, field_names) ==
    [i \in 1..Min(Len(obj), Len(field_names)) |->
        [ObjectName |-> IF HasName(field_names) THEN NameOf(obj, field_names) ELSE "N/A",
         FieldName  |-> field_names[i],
         Value      |-> obj[i],
         Unit       |-> ""]]

TypeRecords(objects, field_names) ==
    Flatten([k \in 1..Len(objects) |-> ObjectRecords(objects[k], field_names)])

\* fault: a type without objects is kept with an empty record list
ExtractIdfDataAllTypes(idfobjects, idd_path) ==
    LET types == IddTypes(idd_path)
    IN  [i \in 1..Len(types) |->
            [obj_type |-> types[i],
             data |-> TypeRecords(idfobjects[types[i]], IddFieldNames(idd_path)[types[i]])]]

ExtractIdfData(idfobjects, idd_path) ==
    LET types == IddTypes(idd_path)
        entry(i) == [obj_type |-> types[i],
                     data |-> TypeRecords(idfobjects[types[i]],
                                          IddFieldNames(idd_path)[types[i]])]
        Kept(e) == e.data # <<>>
    IN  SelectSeq([i \in 1..Len(types) |-> entry(i)], Kept)

(***************************************************************************)
(* write_data_to_excel: the "ALL" sheet, then one sheet per object type    *)
(* under its sanitized name.  A sheet name the writer already holds is     *)
(* written into the existing worksheet, cell over cell.                    *)
(***************************************************************************)
AllColumns == <<"ObjectType", "ObjectName", "FieldName", "Value", "Unit">>

TypeColumns == <<"ObjectName", "FieldName", "Value", "Unit">>

AllRows(all_sheets_data) ==
    Flatten([i \in 1..Len(all_sheets_data) |->
        [k \in 1..Len(all_sheets_data[i].data) |->
            [ObjectType |-> all_sheets_data[i].obj_type,
             ObjectName |-> all_sheets_data[i].data[k].ObjectName,
             FieldName  |-> all_sheets_data[i].data[k].FieldName,
             Value      |-> all_sheets_data[i].data[k].Value,
             Unit       |-> all_sheets_data[i].data[k].Unit]]])

SheetIndex(sheets, name) ==
    IF \E i \in 1..Len(sheets) : sheets[i].name = name
    THEN CHOOSE i \in 1..Len(sheets) : sheets[i].name = name
    ELSE 0

\* df.to_excel(writer, index=False, sheet_name=...)
ToExcel(sheets, name, columns, rows) ==
    LET i == SheetIndex(sheets, name)
    IN  IF i = 0
        THEN Append(sheets, [name |-> name, columns |-> columns, rows |-> rows])
        ELSE [sheets EXCEPT ![i] =
                [name |-> name, columns |-> columns,
                 rows |-> rows \o SubSeq(sheets[i].rows, Len(rows) + 1, Len(sheets[i].rows))]]

RECURSIVE WriteTypeSheets(_, _)
WriteTypeSheets(sheets, entries) ==
    IF entries = <<>> THEN sheets
    ELSE WriteTypeSheets(
            ToExcel(sheets, SanitizeSheetName(Head(entries).obj_type),
                    TypeColumns, Head(entries).data),
            Tail(entries))

XlsxFile(sheets) == [exists |-> TRUE, readable |-> TRUE, sheets |-> sheets]

BadXlsxFile == [exists |-> TRUE, readable |-> FALSE, sheets |-> <<>>]

\* the file at output_excel_path after the call (before: the file already there)
WriteDataToExcel(all_sheets_data, before, include_individual_sheets) ==
    IF all_sheets_data = <<>> THEN before
    ELSE LET all == ToExcel(<<>>, "ALL", AllColumns, AllRows(all_sheets_data))
         IN  XlsxFile(IF include_individual_sheets
                      THEN WriteTypeSheets(all, all_sheets_data)
                      ELSE all)

(***************************************************************************)
(* read_excel_data: pd.read_excel(sheet_name=None) and the check of the    *)
(* required columns of every sheet other than "ALL".                       *)
(***************************************************************************)
RequiredColumns == <<"ObjectName", "FieldName", "Value">>

MissingColumns(columns) ==
    LET Missing(col) == ~Contains(columns, col) IN SelectSeq(RequiredColumns, Missing)

ReadRow(row) == [c \in DOMAIN row |-> ReadCell(row[c])]

PdReadExcel(file) ==
    [i \in 1..Len(file.sheets) |->
        [name    |-> file.sheets[i].name,
         columns |-> file.sheets[i].columns,
         rows    |-> [k \in 1..Len(file.sheets[i].rows) |-> ReadRow(file.sheets[i].rows[k])]]]

\* fault: the required columns are checked on the "ALL" sheet too
ReadExcelOkAllChecked(file) ==
    /\ file.readable
    /\ \A i \in 1..Len(file.sheets) : MissingColumns(file.sheets[i].columns) = <<>>

ReadExcelOk(file) ==
    /\ file.readable
    /\ \A i \in 1..Len(file.sheets) :
          file.sheets[i].name # "ALL" => MissingColumns(file.sheets[i].columns) = <<>>

(***************************************************************************)
(* validate_excel_for_update: (is_valid, messages).  Every sheet other     *)
(* than "ALL" is looked at; a sheet can add a missing-columns message and  *)
(* an empty message.                                                       *)
(***************************************************************************)
\* str() of a list of column names: ['Value'] or ['FieldName', 'Value']
RECURSIVE JoinQuoted(_)
JoinQuoted(cols) ==
    IF cols = <<>> THEN ""
    ELSE "'" \o Head(cols) \o "'"
         \o (IF Tail(cols) = <<>> THEN "" ELSE ", " \o JoinQuoted(Tail(cols)))

PyList(cols) == "[" \o JoinQuoted(cols) \o "]"

\* fault: a sheet without rows is not reported as empty
DfEmptyNever(sheet) == FALSE

\* df.empty: no rows or no columns
DfEmpty(sheet) == sheet.rows = <<>> \/ sheet.columns = <<>>

SheetMessages(sheet) ==
    (IF MissingColumns(sheet.columns) # <<>>
     THEN <<"Sheet '" \o sheet.name \o "' missing columns: "
             \o PyList(MissingColumns(sheet.columns))>>
     ELSE <<>>)
    \o (IF DfEmpty(sheet) THEN <<"Sheet '" \o sheet.name \o "' is empty">> ELSE <<>>)

ObjectSheets(file) ==
    LET NotAll(sheet) == sheet.name # "ALL" IN SelectSeq(file.sheets, NotAll)

\* fault: the loop over the sheets stops at the first message
CollectFirstMessage(object_sheets) ==
    LET all == Flatten([i \in 1..Len(object_sheets) |-> SheetMessages(object_sheets[i])])
    IN  SubSeq(all, 1, 1)

CollectMessages(object_sheets) ==
    Flatten([i \in 1..Len(object_sheets) |-> SheetMessages(object_sheets[i])])

ValidateExcelForUpdate(file) ==
    IF ~file.exists
    THEN [done |-> TRUE, is_valid |-> FALSE, messages |-> <<"File not found">>]
    ELSE IF ~file.readable
    THEN [done |-> TRUE, is_valid |-> FALSE, messages |-> <<"Error reading Excel file">>]
    ELSE IF ObjectSheets(file) = <<>>
    THEN [done |-> TRUE, is_valid |-> FALSE,
          messages |-> <<"No object-specific sheets found (only 'ALL' sheet present)">>]
    ELSE IF CollectMessages(ObjectSheets(file)) # <<>>
    THEN [done |-> TRUE, is_valid |-> FALSE,
          messages |-> CollectMessages(ObjectSheets(file))]
    ELSE [done |-> TRUE, is_valid |-> TRUE,
          messages |-> <<"Excel file format is valid for IDF updates">>]

(***************************************************************************)
(* df.groupby('ObjectName'): the groups in sorted key order, rows with a   *)
(* NaN key dropped, the rows of a group in sheet order.                    *)
(***************************************************************************)
RECURSIVE SortKeys(_)
SortKeys(S) ==
    IF S = {} THEN <<>>
    ELSE LET m == CHOOSE x \in S : \A y \in S \ {x} : StrLess(x, y)
         IN  <<m>> \o SortKeys(S \ {m})

GroupKeys(rows) ==
    SortKeys({rows[k].ObjectName.s : k \in {j \in 1..Len(rows) : ~rows[j].ObjectName.isnan}})

GroupRows(rows, object_name) ==
    LET InGroup(row) == row.ObjectName = StrCell(object_name) IN SelectSeq(rows, InGroup)

(***************************************************************************)
(* State of one update_idf_from_excel call and of the files it works on.   *)
(***************************************************************************)
VARIABLES
    iddname,     \* eppy's class-level IDD name (IDF.setiddname), "None" when unset
    idf_file,    \* the file at original_idf_path
    xlsx_file,   \* the file at modified_excel_path
    idd_path,    \* the idd_path argument
    idd_exists,  \* os.path.exists(idd_path)
    out_file,    \* the file at output_idf_path
    pc,          \* "start", "sheets", "groups", "rows", "done"
    idf,         \* idf.idfobjects of the call
    excel_data,  \* the sheets read_excel_data returned
    si,          \* position of the current sheet in excel_data
    groups,      \* the group keys of the current sheet
    gi,          \* position of the current group in groups
    ri,          \* rows of the current group already handled
    matching,    \* position of matching_object in idf_objects
    stats,       \* the stats dict
    outcome,     \* "running", "returned", "raised"
    pass,        \* number of the update call (1 for the first)
    touched,     \* history: per entry of updated_objects, the field it overwrote
    edit,        \* history: the cell the user changed in the written container
    validation,  \* what validate_excel_for_update returned
    extracted,   \* what extract_idf_data returned
    prev,        \* history: the call before this one
    shown        \* what the application shows after the update

vars == <<iddname, idf_file, xlsx_file, idd_path, idd_exists, out_file, pc, idf,
          excel_data, si, groups, gi, ri, matching, stats, outcome, pass, touched, edit,
          validation, extracted, prev, shown>>

session == <<validation, extracted, prev, shown>>

NoValidation == [done |-> FALSE]

NoData == [returned |-> FALSE]

NoCall == [made |-> FALSE]

NoShown == [reported |-> FALSE]

InitSession ==
    /\ validation = NoValidation
    /\ extracted = NoData
    /\ prev = NoCall
    /\ shown = NoShown

NewStats ==
    [total_updates |-> 0, successful_updates |-> 0, failed_updates |-> 0,
     warnings |-> <<>>, errors |-> <<>>, updated_objects |-> <<>>]

NoGraph == [T \in {} |-> <<>>]

\* IDF.setiddname(idd_path): eppy keeps the first IDD and refuses another one
SetIddOk(current, path) == current \in {"None", path}

SetIddName(current, path) == IF current = "None" THEN path ELSE current

\* fault: the critical error is logged as a warning
CriticalErrorAsWarning(st, what) ==
    [st EXCEPT !.warnings = Append(@, "Critical error during IDF update: " \o what)]

CriticalError(st, what) ==
    [st EXCEPT !.errors = Append(@, "Critical error during IDF update: " \o what)]

locals == <<excel_data, si, groups, gi, ri, matching>>

files == <<idf_file, xlsx_file, idd_path, idd_exists, edit>>

(***************************************************************************)
(* Lines 68-98: the existence checks raise; everything from setiddname to  *)
(* read_excel_data runs inside the try block and ends in the critical      *)
(* error entry.                                                            *)
(***************************************************************************)
RaiseNotFound ==
    /\ pc = "start"
    /\ ~idf_file.exists \/ ~xlsx_file.exists \/ ~idd_exists
    /\ pc' = "done"
    /\ outcome' = "raised"
    /\ UNCHANGED <<session, iddname, files, out_file, idf, locals, stats, pass, touched>>

LoadFails ==
    /\ pc = "start"
    /\ idf_file.exists /\ xlsx_file.exists /\ idd_exists
    /\ \/ /\ ~SetIddOk(iddname, idd_path)
          /\ stats' = CriticalError(NewStats, "IDD file is set to: " \o iddname)
          /\ iddname' = iddname
       \/ /\ SetIddOk(iddname, idd_path)
          /\ ~ParseOk(idf_file, SetIddName(iddname, idd_path))
          /\ stats' = CriticalError(NewStats, "cannot parse IDF")
          /\ iddname' = SetIddName(iddname, idd_path)
       \/ /\ SetIddOk(iddname, idd_path)
          /\ ParseOk(idf_file, SetIddName(iddname, idd_path))
          /\ ~ReadExcelOk(xlsx_file)
          /\ stats' = CriticalError(NewStats, "Error reading Excel file")
          /\ iddname' = SetIddName(iddname, idd_path)
    /\ pc' = "done"
    /\ outcome' = "returned"
    /\ UNCHANGED <<session, files, out_file, idf, locals, pass, touched>>

Load ==
    /\ pc = "start"
    /\ idf_file.exists /\ xlsx_file.exists /\ idd_exists
    /\ SetIddOk(iddname, idd_path)
    /\ iddname' = SetIddName(iddname, idd_path)
    /\ ParseOk(idf_file, iddname')
    /\ ReadExcelOk(xlsx_file)
    /\ stats' = NewStats
    /\ idf' = ParseIdf(idf_file, iddname')
    /\ excel_data' = PdReadExcel(xlsx_file)
    /\ si' = 0 /\ groups' = <<>> /\ gi' = 0 /\ ri' = 0 /\ matching' = 0
    /\ touched' = <<>>
    /\ pc' = "sheets"
    /\ UNCHANGED <<session, files, out_file, outcome, pass>>

(***************************************************************************)
(* Lines 100-112: the next sheet.  "ALL" is skipped; a sheet whose         *)
(* stripped name is no key of idf.idfobjects is passed over (the if has no *)
(* else branch); otherwise its rows are grouped by ObjectName.             *)
(***************************************************************************)
ObjectType(sheet) == Strip(sheet.name)

KnownType(idfobjects, object_type) == object_type \in DOMAIN idfobjects

CurSheet == excel_data[si]

CurType == ObjectType(CurSheet)

CurFieldNames == IddFieldNames(iddname)[CurType]

SkipAllSheet ==
    /\ pc = "sheets" /\ si < Len(excel_data)
    /\ excel_data[si + 1].name = "ALL"
    /\ si' = si + 1
    /\ UNCHANGED <<session, iddname, files, out_file, pc, idf, excel_data, groups, gi, ri,
                   matching, stats, outcome, pass, touched>>

SkipUnknownType ==
    /\ pc = "sheets" /\ si < Len(excel_data)
    /\ excel_data[si + 1].name # "ALL"
    /\ ~KnownType(idf, ObjectType(excel_data[si + 1]))
    /\ si' = si + 1
    /\ UNCHANGED <<session, iddname, files, out_file, pc, idf, excel_data, groups, gi, ri,
                   matching, stats, outcome, pass, touched>>

GroupSheet ==
    /\ pc = "sheets" /\ si < Len(excel_data)
    /\ excel_data[si + 1].name # "ALL"
    /\ KnownType(idf, ObjectType(excel_data[si + 1]))
    /\ si' = si + 1
    /\ groups' = GroupKeys(excel_data[si + 1].rows)
    /\ gi' = 0 /\ ri' = 0 /\ matching' = 0
    /\ pc' = IF groups' = <<>> THEN "sheets" ELSE "groups"
    /\ UNCHANGED <<session, iddname, files, out_file, idf, excel_data, stats, outcome, pass, touched>>

(***************************************************************************)
(* Lines 114-122 and 163-167: the next group; the first object whose Name  *)
(* equals the group key is the matching object.                            *)
(***************************************************************************)
NameMatches(obj, field_names, object_name) ==
    HasName(field_names) /\ NameOf(obj, field_names) = object_name

\* fault: the search does not stop at the first match (no break)
FindMatchingLast(idf_objects, field_names, object_name) ==
    IF \E i \in 1..Len(idf_objects) : NameMatches(idf_objects[i], field_names, object_name)
    THEN CHOOSE i \in 1..Len(idf_objects) :
            /\ NameMatches(idf_objects[i], field_names, object_name)
            /\ \A j \in (i + 1)..Len(idf_objects) :
                  ~NameMatches(idf_objects[j], field_names, object_name)
    ELSE 0

FindMatching(idf_objects, field_names, object_name) ==
    IF \E i \in 1..Len(idf_objects) : NameMatches(idf_objects[i], field_names, object_name)
    THEN CHOOSE i \in 1..Len(idf_objects) :
            /\ NameMatches(idf_objects[i], field_names, object_name)
            /\ \A j \in 1..(i - 1) : ~NameMatches(idf_objects[j], field_names, object_name)
    ELSE 0

\* fault: the warning is recorded but the group is not counted as failed
ObjectNotFoundUncounted(st, object_name, object_type) ==
    [st EXCEPT !.warnings = Append(@, "Object '" \o object_name \o "' of type '"
                                       \o object_type \o "' not found in IDF")]

ObjectNotFound(st, object_name, object_type) ==
    [st EXCEPT !.warnings = Append(@, "Object '" \o object_name \o "' of type '"
                                       \o object_type \o "' not found in IDF"),
               !.failed_updates = @ + 1]

AfterGroup == IF gi' < Len(groups) THEN "groups" ELSE "sheets"

GroupMatched ==
    /\ pc = "groups"
    /\ FindMatching(idf[CurType], CurFieldNames, groups[gi + 1]) # 0
    /\ matching' = FindMatching(idf[CurType], CurFieldNames, groups[gi + 1])
    /\ gi' = gi + 1 /\ ri' = 0
    /\ pc' = "rows"
    /\ UNCHANGED <<session, iddname, files, out_file, idf, excel_data, si, groups, stats,
                   outcome, pass, touched>>

GroupNotFound ==
    /\ pc = "groups"
    /\ FindMatching(idf[CurType], CurFieldNames, groups[gi + 1]) = 0
    /\ stats' = ObjectNotFound(stats, groups[gi + 1], CurType)
    /\ gi' = gi + 1
    /\ pc' = AfterGroup
    /\ UNCHANGED <<session, iddname, files, out_file, idf, excel_data, si, groups, ri, matching,
                   outcome, pass, touched>>

(***************************************************************************)
(* Lines 124-162: one row of the matched group.                            *)
(***************************************************************************)
CurRows == GroupRows(CurSheet.rows, groups[gi])

CurRow == CurRows[ri + 1]

NewValue(row) == PyStr(row.Value)

\* field_name in field_names
FieldKnown(row, field_names) ==
    ~row.FieldName.isnan /\ Contains(field_names, row.FieldName.s)

FieldIndex(row, field_names) == IndexOf(field_names, row.FieldName.s)

\* fault: the comparison of the old and the new text is left out
ValueDiffersAlways(old_value, new_value) == TRUE

\* old_value != new_value
ValueDiffers(old_value, new_value) == old_value # new_value

UpdateRecord(object_type, object_name, field_name, old_value, new_value) ==
    [object_type |-> object_type, object_name |-> object_name,
     field_name |-> field_name, old_value |-> old_value, new_value |-> new_value]

RecordUpdate(st, rec) ==
    [st EXCEPT !.total_updates = @ + 1,
               !.successful_updates = @ + 1,
               !.updated_objects = Append(@, rec)]

FieldNotFound(st, field_name, object_name, object_type) ==
    [st EXCEPT !.warnings = Append(@, "Field '" \o field_name \o "' not found in object '"
                                       \o object_name \o "' of type '" \o object_type \o "'"),
               !.failed_updates = @ + 1]

RowError(st, field_name, object_name, what) ==
    [st EXCEPT !.errors = Append(@, "Error updating field '" \o field_name
                                     \o "' in object '" \o object_name \o "': " \o what),
               !.failed_updates = @ + 1]

\* fault: the update is logged and counted but the field keeps its old value
SetFieldNowhere(idfobjects, object_type, k, field_index, new_value) == idfobjects

\* fault: the new value is written to every object of the type
SetFieldEveryObject(idfobjects, object_type, k, field_index, new_value) ==
    [idfobjects EXCEPT ![object_type] =
        [n \in 1..Len(@) |->
            IF field_index <= Len(@[n]) THEN [@[n] EXCEPT ![field_index] = new_value]
            ELSE @[n]]]

\* matching_object.obj[field_index] = new_value
SetField(idfobjects, object_type, k, field_index, new_value) ==
    [idfobjects EXCEPT ![object_type][k][field_index] = new_value]

AfterRow ==
    IF ri' < Len(CurRows) THEN "rows"
    ELSE IF gi < Len(groups) THEN "groups" ELSE "sheets"

\* fault: a row with an unknown field ends the rows of its group
RowFieldNotFoundAborts ==
    /\ pc = "rows"
    /\ ~FieldKnown(CurRow, CurFieldNames)
    /\ stats' = FieldNotFound(stats, PyStr(CurRow.FieldName), groups[gi], CurType)
    /\ ri' = Len(CurRows)
    /\ pc' = AfterRow
    /\ UNCHANGED <<session, iddname, files, out_file, idf, excel_data, si, groups, gi, matching,
                   outcome, pass, touched>>

RowFieldNotFound ==
    /\ pc = "rows"
    /\ ~FieldKnown(CurRow, CurFieldNames)
    /\ stats' = FieldNotFound(stats, PyStr(CurRow.FieldName), groups[gi], CurType)
    /\ ri' = ri + 1
    /\ pc' = AfterRow
    /\ UNCHANGED <<session, iddname, files, out_file, idf, excel_data, si, groups, gi, matching,
                   outcome, pass, touched>>

RowRaises ==
    /\ pc = "rows"
    /\ FieldKnown(CurRow, CurFieldNames)
    /\ FieldIndex(CurRow, CurFieldNames) > Len(idf[CurType][matching])
    /\ stats' = RowError(stats, PyStr(CurRow.FieldName), groups[gi],
                         "list index out of range")
    /\ ri' = ri + 1
    /\ pc' = AfterRow
    /\ UNCHANGED <<session, iddname, files, out_file, idf, excel_data, si, groups, gi, matching,
                   outcome, pass, touched>>

RowUnchanged ==
    /\ pc = "rows"
    /\ FieldKnown(CurRow, CurFieldNames)
    /\ FieldIndex(CurRow, CurFieldNames) <= Len(idf[CurType][matching])
    /\ ~ValueDiffers(idf[CurType][matching][FieldIndex(CurRow, CurFieldNames)],
                     NewValue(CurRow))
    /\ ri' = ri + 1
    /\ pc' = AfterRow
    /\ UNCHANGED <<session, iddname, files, out_file, idf, excel_data, si, groups, gi, matching,
                   stats, outcome, pass, touched>>

RowUpdates ==
    /\ pc = "rows"
    /\ FieldKnown(CurRow, CurFieldNames)
    /\ FieldIndex(CurRow, CurFieldNames) <= Len(idf[CurType][matching])
    /\ LET field_index == FieldIndex(CurRow, CurFieldNames)
           old_value == idf[CurType][matching][field_index]
           new_value == NewValue(CurRow)
       IN  /\ ValueDiffers(old_value, new_value)
           /\ idf' = SetField(idf, CurType, matching, field_index, new_value)
           /\ stats' = RecordUpdate(stats,
                          UpdateRecord(CurType, groups[gi], CurRow.FieldName.s,
                                       old_value, new_value))
           /\ touched' = Append(touched, [object_type |-> CurType, k |-> matching,
                                          field_index |-> field_index])
    /\ ri' = ri + 1
    /\ pc' = AfterRow
    /\ UNCHANGED <<session, iddname, files, out_file, excel_data, si, groups, gi, matching,
                   outcome, pass>>

(***************************************************************************)
(* Lines 169-172: idf.saveas(output_idf_path); return stats.               *)
(***************************************************************************)
\* fault: the graph is saved only when no row failed
SaveUnlessFailed ==
    /\ pc = "sheets" /\ si = Len(excel_data)
    /\ out_file' = IF stats.failed_updates = 0 THEN SaveIdf(idf, iddname) ELSE out_file
    /\ pc' = "done"
    /\ outcome' = "returned"
    /\ UNCHANGED <<session, iddname, files, idf, locals, stats, pass, touched>>

Save ==
    /\ pc = "sheets" /\ si = Len(excel_data)
    /\ out_file' = SaveIdf(idf, iddname)
    /\ pc' = "done"
    /\ outcome' = "returned"
    /\ UNCHANGED <<session, iddname, files, idf, locals, stats, pass, touched>>

UpdateStep ==
    \/ RaiseNotFound \/ LoadFails \/ Load
    \/ SkipAllSheet \/ SkipUnknownType \/ GroupSheet
    \/ GroupMatched \/ GroupNotFound
    \/ RowFieldNotFound \/ RowRaises \/ RowUnchanged \/ RowUpdates
    \/ Save

(***************************************************************************)
(* Inputs.  The model files hold a VERSION object, up to MaxInst ZONE      *)
(* objects (with or without their trailing Width field) and one WALL:EXT   *)
(* object; the edit containers are either one ZONE sheet of up to MaxRows  *)
(* arbitrary rows, or up to MaxSheets sheets of a few fixed row lists.     *)
(***************************************************************************)
SeqsUpTo(S, n) == UNION {[1..k -> S] : k \in 0..n}

ZoneNames == {"A", "B"}

ZoneBlocks == {<<"ZONE", "A">>} \cup {<<"ZONE", n, "A">> : n \in ZoneNames}

VersionBlock == <<"VERSION", "9.0">>

WallBlock == <<"WALL:EXT", "A", "B">>

ModelFile(zones) == IdfFile(<<VersionBlock>> \o zones \o <<WallBlock>>)

ModelFiles == {ModelFile(zs) : zs \in SeqsUpTo(ZoneBlocks, MaxInst)}

SmallModelFiles ==
    {ModelFile(zs) : zs \in SeqsUpTo({<<"ZONE", "A", "A">>, <<"ZONE", "B">>}, MaxInst)}

XRow(n, f, v) == [ObjectName |-> n, FieldName |-> f, Value |-> v]

EditRows ==
    {XRow(n, "Width", v) : n \in ZoneNames, v \in {"A", "B"}}
    \cup {XRow("A", "Width", "")}
    \cup {XRow("A", "Name", "A"), XRow("A", "Name", "B"), XRow("B", "Name", "A")}
    \cup {XRow("A", "Bogus", "B")}
    \cup {XRow("A", "key", "C")}

Sheet(name, columns, rows) == [name |-> name, columns |-> columns, rows |-> rows]

RowContainers ==
    {XlsxFile(<<Sheet("ZONE", RequiredColumns, rs)>>) : rs \in SeqsUpTo(EditRows, MaxRows)}

SheetNames == {"ZONE", " ZONE ", "ALL", "WALLEXT"}

SheetRowLists ==
    {<<>>,
     <<XRow("A", "Width", "B"), XRow("A", "Bogus", "B")>>,
     <<XRow("A", "Name", "B")>>,
     <<XRow("", "Width", "B"), XRow("B", "Width", "")>>}

FixedSheets ==
    {Sheet(n, RequiredColumns, rs) : n \in SheetNames, rs \in SheetRowLists}
    \cup {Sheet(n, <<"ObjectName", "FieldName">>, <<>>) : n \in {"ZONE", "WALLEXT"}}

DistinctNames(sheets) ==
    \A i, j \in 1..Len(sheets) : i # j => sheets[i].name # sheets[j].name

SheetContainers ==
    {XlsxFile(ss) : ss \in {t \in SeqsUpTo(FixedSheets, MaxSheets) : DistinctNames(t)}}

NoEdit == [made |-> FALSE]

InitCall ==
    /\ idd_path = "V1.idd"
    /\ out_file = NoFile
    /\ pc = "start"
    /\ idf = NoGraph
    /\ excel_data = <<>>
    /\ si = 0 /\ groups = <<>> /\ gi = 0 /\ ri = 0 /\ matching = 0
    /\ stats = NewStats
    /\ outcome = "running"
    /\ pass = 1
    /\ touched = <<>>
    /\ edit = NoEdit
    /\ InitSession

InitRows ==
    /\ idf_file \in ModelFiles
    /\ xlsx_file \in RowContainers
    /\ idd_exists = TRUE
    /\ iddname = "None"

InitSheets ==
    /\ idf_file \in SmallModelFiles
    /\ xlsx_file \in SheetContainers
    /\ idd_exists = TRUE
    /\ iddname = "None"

InitFaults ==
    /\ idf_file \in {NoFile, BadIdfFile, ModelFile(<<<<"ZONE", "A", "A">>>>)}
    /\ xlsx_file \in {NoFile, BadXlsxFile,
                      XlsxFile(<<Sheet("ZONE", RequiredColumns, <<XRow("A", "Width", "B")>>)>>)}
    /\ idd_exists \in BOOLEAN
    /\ iddname \in {"None", "V0.idd"}

Init == InitCall /\ (InitRows \/ InitSheets \/ InitFaults)

Next == UpdateStep

Spec == Init /\ [][Next]_vars

(***************************************************************************)
(* A second update call whose original is the output of the first, with    *)
(* the same edit container and IDD and a fresh output destination.         *)
(***************************************************************************)
Reapply ==
    /\ pc = "done" /\ outcome = "returned" /\ out_file.exists
    /\ pass = 1
    /\ pass' = 2
    /\ idf_file' = out_file
    /\ out_file' = NoFile
    /\ pc' = "start"
    /\ outcome' = "running"
    /\ stats' = NewStats
    /\ idf' = NoGraph
    /\ excel_data' = <<>>
    /\ si' = 0 /\ groups' = <<>> /\ gi' = 0 /\ ri' = 0 /\ matching' = 0
    /\ touched' = <<>>
    /\ UNCHANGED <<session, iddname, xlsx_file, idd_path, idd_exists, edit>>

NextTwice == UpdateStep \/ Reapply

SpecTwice == Init /\ [][NextTwice]_vars

(***************************************************************************)
(* Convert, then update: extract_idf_data and write_data_to_excel produce  *)
(* the container (idf_processor.py, main block), the user changes at most  *)
(* one cell of a per-type sheet, and update_idf_from_excel is called with  *)
(* the original model.                                                     *)
(***************************************************************************)
ConvertOk ==
    /\ idf_file.exists
    /\ SetIddOk(iddname, idd_path)
    /\ ParseOk(idf_file, SetIddName(iddname, idd_path))

\* extract_idf_data returns None on any exception and the container is then
\* not written
Convert ==
    /\ pc = "convert"
    /\ iddname' = IF idf_file.exists /\ SetIddOk(iddname, idd_path)
                  THEN SetIddName(iddname, idd_path) ELSE iddname
    /\ xlsx_file' =
          IF ConvertOk
          THEN WriteDataToExcel(
                  ExtractIdfData(ParseIdf(idf_file, iddname'), iddname'),
                  xlsx_file, TRUE)
          ELSE xlsx_file
    /\ extracted' =
          IF ConvertOk
          THEN [returned |-> TRUE, none |-> FALSE,
                data |-> ExtractIdfData(ParseIdf(idf_file, iddname'), iddname')]
          ELSE [returned |-> TRUE, none |-> TRUE]
    /\ pc' = "edit"
    /\ UNCHANGED <<idf_file, idd_path, idd_exists, edit, out_file, idf, locals, stats,
                   outcome, pass, touched, validation, prev, shown>>

EditTexts(col) ==
    CASE col = "ObjectName" -> {"Z"}
      [] col = "FieldName"  -> {"Width", "Bogus"}
      [] col = "Value"      -> {"C", ""}

EditCell ==
    /\ pc = "edit"
    /\ xlsx_file.exists /\ xlsx_file.readable
    /\ \E i \in 1..Len(xlsx_file.sheets) :
       \E k \in 1..Len(xlsx_file.sheets[i].rows) :
       \E col \in {"ObjectName", "FieldName", "Value"} :
       \E v \in EditTexts(col) :
          /\ xlsx_file.sheets[i].name # "ALL"
          /\ xlsx_file.sheets[i].rows[k][col] # v
          /\ xlsx_file' = [xlsx_file EXCEPT !.sheets[i].rows[k][col] = v]
          /\ edit' = [made |-> TRUE, sheet |-> i, row |-> k, col |-> col, value |-> v]
    /\ pc' = "start"
    /\ UNCHANGED <<session, iddname, idf_file, idd_path, idd_exists, out_file, idf, locals, stats,
                   outcome, pass, touched>>

KeepAsWritten ==
    /\ pc = "edit"
    /\ pc' = "start"
    /\ UNCHANGED <<session, iddname, files, out_file, idf, locals, stats, outcome, pass, touched>>

RoundTripBlocks ==
    {<<"ZONE", "A">>, <<"ZONE", "A", "A">>, <<"ZONE", "A", "">>, <<"ZONE", "B", "">>}

RoundTripFiles == {ModelFile(zs) : zs \in SeqsUpTo(RoundTripBlocks, MaxInst)}

\* models of V2.idd with objects of the types WALL:EXT and WALLEXT, one of them
\* with more values than the IDD declares fields
CollidingFiles ==
    {IdfFile(<<VersionBlock>> \o ws \o <<x>>) :
        ws \in SeqsUpTo({WallBlock}, MaxInst) \ {<<>>},
        x \in {<<"WALLEXT", "A", "B", "C">>, <<"WALLEXT", "B", "A">>}}

InitRoundTrip ==
    /\ \/ idd_path = "V1.idd" /\ idf_file \in RoundTripFiles \cup {BadIdfFile}
       \/ idd_path = "V2.idd" /\ idf_file \in CollidingFiles
    /\ iddname = "None"
    /\ idd_exists = TRUE
    /\ xlsx_file \in {NoFile, BadXlsxFile}
    /\ out_file = NoFile
    /\ pc = "convert"
    /\ idf = NoGraph
    /\ excel_data = <<>>
    /\ si = 0 /\ groups = <<>> /\ gi = 0 /\ ri = 0 /\ matching = 0
    /\ stats = NewStats
    /\ outcome = "running"
    /\ pass = 1
    /\ touched = <<>>
    /\ edit = NoEdit
    /\ InitSession

NextRoundTrip == Convert \/ EditCell \/ KeepAsWritten \/ UpdateStep

SpecRoundTrip == InitRoundTrip /\ [][NextRoundTrip]_vars

(***************************************************************************)
(* Two update calls in one process with the same original model and a      *)
(* fresh output destination each: the second call gets any IDD of the list *)
(* and a container that differs from the first at most in its "ALL" sheet. *)
(***************************************************************************)
AllSheetVariants ==
    {Sheet("ALL", <<"Unit">>, <<>>),
     Sheet("ALL", RequiredColumns, <<XRow("A", "Width", "C")>>),
     Sheet("ALL", AllColumns,
           <<[ObjectType |-> "ZONE", ObjectName |-> "A", FieldName |-> "Name",
              Value |-> "C", Unit |-> ""]>>)}

\* the containers with the sheets of file other than "ALL" and an "ALL" sheet
\* in front of them, behind them or not at all
AllVariants(file) ==
    IF ~file.exists \/ ~file.readable THEN {file}
    ELSE (IF ObjectSheets(file) = <<>> THEN {} ELSE {XlsxFile(ObjectSheets(file))})
         \cup {XlsxFile(<<a>> \o ObjectSheets(file)) : a \in AllSheetVariants}
         \cup {XlsxFile(ObjectSheets(file) \o <<a>>) : a \in AllSheetVariants}

NextCall ==
    /\ pc = "done"
    /\ pass = 1
    /\ pass' = 2
    /\ xlsx_file' \in AllVariants(xlsx_file)
    /\ idd_path' \in IddPaths
    /\ prev' = [made |-> TRUE, idf_file |-> idf_file, xlsx_file |-> xlsx_file,
                idd_path |-> idd_path, stats |-> stats, out_file |-> out_file,
                outcome |-> outcome]
    /\ out_file' = NoFile
    /\ pc' = "start"
    /\ outcome' = "running"
    /\ stats' = NewStats
    /\ idf' = NoGraph
    /\ excel_data' = <<>>
    /\ si' = 0 /\ groups' = <<>> /\ gi' = 0 /\ ri' = 0 /\ matching' = 0
    /\ touched' = <<>>
    /\ UNCHANGED <<iddname, idf_file, idd_exists, edit, validation, extracted, shown>>

PairSheets ==
    {s \in FixedSheets : s.name # "ALL"} \cup {Sheet("ALL", AllColumns, <<>>)}

PairContainers ==
    {XlsxFile(ss) :
        ss \in {t \in SeqsUpTo(PairSheets, MaxSheets) : t # <<>> /\ DistinctNames(t)}}
    \cup {NoFile, BadXlsxFile}

PairModels ==
    {ModelFile(<<<<"ZONE", "A", "A">>>>), ModelFile(<<<<"ZONE", "A">>, <<"ZONE", "B", "B">>>>),
     BadIdfFile}

InitPair ==
    /\ InitCall
    /\ idf_file \in PairModels
    /\ xlsx_file \in PairContainers
    /\ idd_exists = TRUE
    /\ iddname = "None"

NextPair == UpdateStep \/ NextCall

SpecPair == InitPair /\ [][NextPair]_vars

(***************************************************************************)
(* The application's update flow (app/main.py): the uploaded container is  *)
(* validated; when it is valid the update runs with the uploaded model and *)
(* the selected IDD, and the application reads the file at the output path *)
(* and shows the result.  A second run in the same process writes to the   *)
(* same output path.                                                       *)
(***************************************************************************)
Validate ==
    /\ pc = "validate"
    /\ validation' = ValidateExcelForUpdate(xlsx_file)
    /\ pc' = IF validation'.is_valid THEN "start" ELSE "rejected"
    /\ UNCHANGED <<iddname, idf_file, xlsx_file, idd_path, idd_exists, edit, out_file, idf,
                   locals, stats, outcome, pass, touched, extracted, prev, shown>>

\* open(output_path) raises when there is no file and the except branch shows
\* the error; otherwise the success box, the stats and the download button
ShowResult(st, file, how) ==
    IF how = "raised" \/ ~file.exists
    THEN [reported |-> TRUE, success |-> FALSE, download |-> NoFile, errors |-> <<>>]
    ELSE [reported |-> TRUE, success |-> TRUE, download |-> file, errors |-> st.errors]

AppReport ==
    /\ pc = "done"
    /\ shown' = ShowResult(stats, out_file, outcome)
    /\ pc' = "reported"
    /\ UNCHANGED <<iddname, files, out_file, idf, locals, stats, outcome, pass, touched,
                   validation, extracted, prev>>

\* the next upload: the same container, the same or an unreadable model, any
\* IDD of the list
NextRun ==
    /\ pc \in {"reported", "rejected"}
    /\ pass = 1
    /\ pass' = 2
    /\ idf_file' \in {idf_file, BadIdfFile}
    /\ idd_path' \in IddPaths
    /\ prev' = [made |-> TRUE, idf_file |-> idf_file, xlsx_file |-> xlsx_file,
                idd_path |-> idd_path, stats |-> stats, out_file |-> out_file,
                outcome |-> outcome]
    /\ validation' = NoValidation
    /\ shown' = NoShown
    /\ pc' = "validate"
    /\ outcome' = "running"
    /\ stats' = NewStats
    /\ idf' = NoGraph
    /\ excel_data' = <<>>
    /\ si' = 0 /\ groups' = <<>> /\ gi' = 0 /\ ri' = 0 /\ matching' = 0
    /\ touched' = <<>>
    /\ UNCHANGED <<iddname, xlsx_file, idd_exists, edit, out_file, extracted>>

ShortRow == [ObjectName |-> "A", FieldName |-> "Width"]

UploadedObjectSheets ==
    {Sheet(n, RequiredColumns, rs) : n \in {"ZONE", "WALLEXT"}, rs \in SheetRowLists}
    \cup {Sheet(n, <<"ObjectName", "FieldName">>, rs) :
             n \in {"ZONE", "WALLEXT"}, rs \in {<<>>, <<ShortRow>>}}
    \cup {Sheet(n, <<>>, <<>>) : n \in {"ZONE", "WALLEXT"}}

UploadedAllSheets ==
    {Sheet("ALL", <<>>, <<>>),
     Sheet("ALL", AllColumns,
           <<[ObjectType |-> "ZONE", ObjectName |-> "A", FieldName |-> "Width",
              Value |-> "C", Unit |-> ""]>>)}

UploadedContainers ==
    {XlsxFile(ss) :
        ss \in {t \in SeqsUpTo(UploadedObjectSheets \cup UploadedAllSheets, MaxSheets) :
                  t # <<>> /\ DistinctNames(t)}}

UploadedModels ==
    {ModelFile(<<<<"ZONE", "A", "B">>>>), ModelFile(<<<<"ZONE", "A">>>>), BadIdfFile}

InitApp ==
    /\ idd_path \in IddPaths
    /\ iddname = "None"
    /\ idd_exists = TRUE
    /\ idf_file \in UploadedModels
    /\ xlsx_file \in UploadedContainers \cup {NoFile, BadXlsxFile}
    /\ out_file = NoFile
    /\ pc = "validate"
    /\ idf = NoGraph
    /\ excel_data = <<>>
    /\ si = 0 /\ groups = <<>> /\ gi = 0 /\ ri = 0 /\ matching = 0
    /\ stats = NewStats
    /\ outcome = "running"
    /\ pass = 1
    /\ touched = <<>>
    /\ edit = NoEdit
    /\ InitSession

NextApp ==
    \/ Validate
    \/ LoadFails \/ Load
    \/ SkipAllSheet \/ SkipUnknownType \/ GroupSheet
    \/ GroupMatched \/ GroupNotFound
    \/ RowFieldNotFound \/ RowRaises \/ RowUnchanged \/ RowUpdates
    \/ Save
    \/ AppReport \/ NextRun

SpecApp == InitApp /\ [][NextApp]_vars

(***************************************************************************)
(* Vocabulary of the properties.                                           *)
(***************************************************************************)
\* the call got past the existence checks, setiddname, the parse and the read
InputsGood ==
    /\ idf_file.exists /\ xlsx_file.exists /\ idd_exists
    /\ iddname = idd_path
    /\ idf_file.tokenizable
    /\ ReadExcelOk(xlsx_file)

Finished == pc = "done" /\ InputsGood

\* the freshly parsed original
Orig == ParseIdf(idf_file, idd_path)

\* the blocks of the output, taken by position: the n-th object of type T of the
\* original is written as block BlockIndex(T, n)
RECURSIVE CountBefore(_, _)
CountBefore(types, T) ==
    IF types = <<>> \/ Head(types) = T THEN 0
    ELSE Len(Orig[Head(types)]) + CountBefore(Tail(types), T)

BlockIndex(T, n) == CountBefore(IddTypes(idd_path), T) + n

SameBlockCount == Len(out_file.blocks) = Len(SaveIdf(Orig, idd_path).blocks)

Out ==
    [T \in DOMAIN Orig |-> [n \in 1..Len(Orig[T]) |-> out_file.blocks[BlockIndex(T, n)]]]

ZoneFields == IddFieldNames(idd_path)["ZONE"]

OneZoneSheet ==
    /\ Len(xlsx_file.sheets) = 1
    /\ xlsx_file.sheets[1].name = "ZONE"

ZoneRows == xlsx_file.sheets[1].rows

HasZone(n) == \E i \in 1..Len(Orig["ZONE"]) : Orig["ZONE"][i][2] = n

FirstZone(n) ==
    CHOOSE i \in 1..Len(Orig["ZONE"]) :
        /\ Orig["ZONE"][i][2] = n
        /\ \A j \in 1..(i - 1) : Orig["ZONE"][j][2] # n

\* the text of a Value cell as the update sees it
ValueText(row) == PyStr(ReadCell(row.Value))

BadRow(k, t) ==
    \/ ~Contains(ZoneFields, ZoneRows[k].FieldName)
    \/ IndexOf(ZoneFields, ZoneRows[k].FieldName) > Len(Orig["ZONE"][t])

C5_OneObject(n) ==
    /\ Finished /\ OneZoneSheet /\ ZoneRows # <<>>
    /\ \A k \in 1..Len(ZoneRows) : ZoneRows[k].ObjectName = n
    /\ HasZone(n)

C5_FaultIsolation ==
    \A n \in ZoneNames : C5_OneObject(n) =>
        LET t == FirstZone(n)
            bad == {k \in 1..Len(ZoneRows) : BadRow(k, t)}
            good == (1..Len(ZoneRows)) \ bad
        IN  /\ stats.failed_updates = Cardinality(bad)
            /\ Len(stats.warnings) + Len(stats.errors) = Cardinality(bad)
            /\ \A k \in good :
                  (\A j \in good : j > k => ZoneRows[j].FieldName # ZoneRows[k].FieldName)
                  => Out["ZONE"][t][IndexOf(ZoneFields, ZoneRows[k].FieldName)]
                        = ValueText(ZoneRows[k])
            /\ (/\ Cardinality(bad) = 1 /\ Cardinality(good) = 1
                /\ \A k \in good :
                      Orig["ZONE"][t][IndexOf(ZoneFields, ZoneRows[k].FieldName)]
                         # ValueText(ZoneRows[k]))
               => stats.successful_updates = 1

C5_Witness ==
    /\ C5_OneObject("A")
    /\ ZoneRows = <<XRow("A", "Bogus", "B"), XRow("A", "Width", "B")>>
    /\ stats.failed_updates = 1 /\ stats.successful_updates = 1
    /\ Out["ZONE"][FirstZone("A")][3] = "B"

(***************************************************************************)
(* C6: when the ObjectName of a group is the Name of no instance of the    *)
(* sheet's type, failed_updates grows by the number of rows of the group,  *)
(* a warning is recorded and no field changes.  (Stated for a ZONE sheet   *)
(* none of whose rows names an existing object.)                           *)
(***************************************************************************)
C6_MissingObjectRows ==
    (/\ Finished /\ OneZoneSheet /\ ZoneRows # <<>>
     /\ Orig["ZONE"] # <<>>
     /\ \A k \in 1..Len(ZoneRows) : ~HasZone(ZoneRows[k].ObjectName))
    => /\ stats.failed_updates = Len(ZoneRows)
       /\ stats.warnings # <<>>
       /\ SameBlockCount
       /\ Out = Orig

(***************************************************************************)
(* C7: when a sheet other than "ALL" names an object type without          *)
(* instances in the base graph (or a type the graph does not know),        *)
(* failed_updates grows by the number of rows of the sheet and a warning   *)
(* is recorded.  (Stated for a container of one such sheet.)               *)
(***************************************************************************)
C7_MissingTypeRows ==
    (/\ Finished
     /\ Len(xlsx_file.sheets) = 1
     /\ xlsx_file.sheets[1].name # "ALL"
     /\ xlsx_file.sheets[1].rows # <<>>
     /\ \/ Strip(xlsx_file.sheets[1].name) \notin DOMAIN Orig
        \/ Orig[Strip(xlsx_file.sheets[1].name)] = <<>>)
    => /\ stats.failed_updates = Len(xlsx_file.sheets[1].rows)
       /\ stats.warnings # <<>>

(***************************************************************************)
(* C8: a catastrophic failure before any row is processed.                 *)
(***************************************************************************)
InputMissing == ~idf_file.exists \/ ~xlsx_file.exists \/ ~idd_exists

\* setiddname, the parse or read_excel_data fails (all inputs exist)
LoadFailure ==
    /\ ~InputMissing
    /\ \/ iddname # idd_path
       \/ ~idf_file.tokenizable
       \/ ~ReadExcelOk(xlsx_file)

SingleCriticalError ==
    /\ outcome = "returned"
    /\ Len(stats.errors) = 1
    /\ stats.total_updates = 0 /\ stats.successful_updates = 0
    /\ stats.failed_updates = 0
    /\ stats.warnings = <<>> /\ stats.updated_objects = <<>>
    /\ out_file = NoFile

TouchedValue(k) ==
    Out[touched[k].object_type][touched[k].k][touched[k].field_index]

Serialised ==
    /\ outcome = "returned"
    /\ out_file.exists
    /\ out_file = SaveIdf(idf, idd_path)
    /\ SameBlockCount

\* C9 as stated: whenever the base model parses and the container is read the
\* mutated graph is serialised and the stats are returned, whatever
\* failed_updates is, and the new value of every successful row is in the
\* output (at the field the row overwrote).
C9_EverySuccessfulValueInOutput ==
    Finished =>
        /\ Serialised
        /\ \A k \in 1..Len(stats.updated_objects) :
              TouchedValue(k) = stats.updated_objects[k].new_value

\* C9 amended: ... and the new value of every successful row is in the output
\* at the field the row overwrote, unless a later successful row overwrote the
\* same field.
C9_PartialSuccess ==
    Finished =>
        /\ Serialised
        /\ \A k \in 1..Len(stats.updated_objects) :
              (\A j \in (k + 1)..Len(touched) : touched[j] # touched[k])
              => TouchedValue(k) = stats.updated_objects[k].new_value

C9_Witness ==
    /\ Finished /\ Serialised
    /\ stats.failed_updates > 0 /\ stats.successful_updates > 0
    /\ TouchedValue(1) = stats.updated_objects[1].new_value

(***************************************************************************)
(* C10: the update changes nothing it was not told to change.  The output  *)
(* has one block per object of the parsed original, in the same order and  *)
(* with the same number of fields, and a field differs from the            *)
(* original only when a sheet other than "ALL" whose stripped name is the  *)
(* type holds a row for that field whose Value text is the new text and    *)
(* differs from the original text; when no sheet of that type renames an   *)
(* object, that row names the instance and the instance is the first of    *)
(* that name.                                                              *)
(***************************************************************************)
SheetsOfType(T) ==
    {i \in 1..Len(xlsx_file.sheets) :
        xlsx_file.sheets[i].name # "ALL" /\ Strip(xlsx_file.sheets[i].name) = T}

Renames(T) ==
    \E i \in SheetsOfType(T) : \E k \in 1..Len(xlsx_file.sheets[i].rows) :
        xlsx_file.sheets[i].rows[k].FieldName = "Name"

ToldToChange(T, n, p) ==
    \E i \in SheetsOfType(T) : \E k \in 1..Len(xlsx_file.sheets[i].rows) :
        LET row == xlsx_file.sheets[i].rows[k]
            fields == IddFieldNames(idd_path)[T]
        IN  /\ row.FieldName = fields[p]
            /\ ValueText(row) = Out[T][n][p]
            /\ ValueText(row) # Orig[T][n][p]
            /\ ~Renames(T) =>
                  /\ row.ObjectName = Orig[T][n][2]
                  /\ \A m \in 1..(n - 1) : Orig[T][m][2] # Orig[T][n][2]

C10_Frame ==
    Finished =>
        /\ SameBlockCount
        /\ \A T \in DOMAIN Orig :
              /\ \A n \in 1..Len(Orig[T]) :
                    /\ Len(Out[T][n]) = Len(Orig[T][n])
                    /\ \A p \in 1..Len(Orig[T][n]) :
                          Out[T][n][p] # Orig[T][n][p] => ToldToChange(T, n, p)

C10_Witness ==
    /\ Finished
    /\ Len(Orig["ZONE"]) = 2
    /\ Orig["ZONE"][1][2] = Orig["ZONE"][2][2]
    /\ Out["ZONE"][1] # Orig["ZONE"][1]
    /\ Out["ZONE"][2] = Orig["ZONE"][2]
    /\ Out["WALL:EXT"] = Orig["WALL:EXT"]
    /\ \E i \in 1..Len(xlsx_file.sheets) : xlsx_file.sheets[i].name = "ALL"

(***************************************************************************)
(* C2: idempotence of the update.                                          *)
(***************************************************************************)
SecondPassIsNoOp ==
    /\ outcome = "returned"
    /\ stats.successful_updates = 0 /\ stats.total_updates = 0
    /\ stats.updated_objects = <<>>
    /\ out_file = idf_file

EditSheets == {i \in 1..Len(xlsx_file.sheets) : xlsx_file.sheets[i].name # "ALL"}

NoIdentityRows ==
    \A i \in EditSheets : \A k \in 1..Len(xlsx_file.sheets[i].rows) :
        xlsx_file.sheets[i].rows[k].FieldName \notin {"Name", "key"}

SingleValued ==
    \A i, j \in EditSheets :
    \A k \in 1..Len(xlsx_file.sheets[i].rows) : \A l \in 1..Len(xlsx_file.sheets[j].rows) :
        LET r == xlsx_file.sheets[i].rows[k]
            q == xlsx_file.sheets[j].rows[l]
        IN  (/\ Strip(xlsx_file.sheets[i].name) = Strip(xlsx_file.sheets[j].name)
             /\ r.ObjectName = q.ObjectName
             /\ r.FieldName = q.FieldName)
            => ValueText(r) = ValueText(q)

Converted == idf_file.exists /\ idf_file.tokenizable

C3_RoundTrip ==
    (pc = "done" /\ Converted /\ ~edit.made)
    => /\ outcome = "returned"
       /\ stats.successful_updates = 0
       /\ SameBlockCount
       /\ Out = Orig

(***************************************************************************)
(* C4: an edit of the Value of a row of the sheet written for a type lands *)
(* on the field the row came from and counts as a successful update.       *)
(* (Stated where the row identifies its object: the type has a Name field, *)
(* the Name of the object is unique within the type, and the new Value is  *)
(* a text that is read back as itself.)                                    *)
(***************************************************************************)
\* the object and field position the k-th record of a type came from
RECURSIVE RecordOrigin(_, _, _, _)
RecordOrigin(objects, field_names, n, k) ==
    LET width == Min(Len(objects[n]), Len(field_names))
    IN  IF k <= width THEN [n |-> n, p |-> k]
        ELSE RecordOrigin(objects, field_names, n + 1, k - width)

EditedType == ExtractIdfData(Orig, idd_path)[edit.sheet - 1].obj_type

EditedOrigin ==
    RecordOrigin(Orig[EditedType], IddFieldNames(idd_path)[EditedType], 1, edit.row)

EditedObjectIdentified ==
    LET objects == Orig[EditedType]
        n == EditedOrigin.n
    IN  /\ HasName(IddFieldNames(idd_path)[EditedType])
        /\ \A m \in 1..Len(objects) : m # n => objects[m][2] # objects[n][2]
        /\ edit.value \notin NaValues

\* every type was written to a sheet of its own
OneSheetPerType == Len(xlsx_file.sheets) = Len(ExtractIdfData(Orig, idd_path)) + 1

C4_EditLands ==
    (/\ pc = "done" /\ Converted /\ edit.made /\ edit.col = "Value"
     /\ OneSheetPerType
     /\ EditedObjectIdentified)
    => /\ outcome = "returned"
       /\ out_file.exists
       /\ Out[EditedType][EditedOrigin.n][EditedOrigin.p] = edit.value
       /\ stats.successful_updates >= 1

(***************************************************************************)
(* C11: first match wins on duplicate names.                               *)
(***************************************************************************)
NamedTypes == {T \in DOMAIN Orig : HasName(IddFieldNames(idd_path)[T])}

\* the instances of type T that the original names N, in graph order
Instances(T, N) == {n \in 1..Len(Orig[T]) : Orig[T][n][2] = N}

FirstInstance(T, N) == CHOOSE n \in Instances(T, N) : \A m \in Instances(T, N) : n <= m

\* every update logged for the name N of type T went to the first instance of
\* that name, and the later instances of that name are as in the original
FirstMatchWins(T, N) ==
    /\ \A k \in 1..Len(stats.updated_objects) :
          (stats.updated_objects[k].object_type = T /\ stats.updated_objects[k].object_name = N)
          => touched[k].k = FirstInstance(T, N)
    /\ \A n \in Instances(T, N) \ {FirstInstance(T, N)} : Out[T][n] = Orig[T][n]

\* C11 as stated: when several instances of a type have the same Name, every
\* row of that type with that ObjectName is applied to the first of them and
\* the later ones are never modified.
C11_FirstMatchWins ==
    Finished =>
        \A T \in NamedTypes : \A N \in ZoneNames :
            Cardinality(Instances(T, N)) >= 2 => FirstMatchWins(T, N)

\* C11 amended: the same, when no row of a sheet of that type names the field
\* Name (a rename of the first instance makes the next instance the first
\* match of a later sheet of the same type).
C11_FirstMatchWinsNoRename ==
    Finished =>
        \A T \in NamedTypes : \A N \in ZoneNames :
            (Cardinality(Instances(T, N)) >= 2 /\ ~Renames(T)) => FirstMatchWins(T, N)

C11_Witness ==
    /\ Finished /\ OneZoneSheet
    /\ Instances("ZONE", "A") = {1, 2}
    /\ ~Renames("ZONE")
    /\ stats.successful_updates = 2
    /\ \A k \in 1..2 : stats.updated_objects[k].object_name = "A" /\ touched[k].k = 1
    /\ Out["ZONE"][1] # Orig["ZONE"][1]
    /\ Out["ZONE"][2] = Orig["ZONE"][2]

(***************************************************************************)
(* C12: validate_excel_for_update fails closed.  It returns is_valid =     *)
(* TRUE exactly when the container exists, can be read, has at least one   *)
(* sheet other than "ALL", and every such sheet has the columns            *)
(* ObjectName, FieldName and Value and at least one row; whenever it       *)
(* returns FALSE it returns at least one message.                          *)
(***************************************************************************)
HasSubstring(s, t) == \E i \in 1..(Len(s) - Len(t) + 1) : SubSeq(s, i, i + Len(t) - 1) = t

EditSheetOk(sheet) ==
    /\ \A c \in {"ObjectName", "FieldName", "Value"} : Contains(sheet.columns, c)
    /\ Len(sheet.rows) >= 1

ContainerOk ==
    /\ xlsx_file.exists /\ xlsx_file.readable
    /\ EditSheets # {}
    /\ \A i \in EditSheets : EditSheetOk(xlsx_file.sheets[i])

C12_ValidateFailsClosed ==
    validation.done =>
        /\ validation.is_valid <=> ContainerOk
        /\ ~validation.is_valid => validation.messages # <<>>

C12_Witness ==
    /\ validation.done /\ ~validation.is_valid
    /\ xlsx_file.exists /\ xlsx_file.readable
    /\ \E i \in EditSheets : EditSheetOk(xlsx_file.sheets[i])
    /\ \E i \in EditSheets :
          /\ xlsx_file.sheets[i].columns = RequiredColumns
          /\ xlsx_file.sheets[i].rows = <<>>
    /\ Len(validation.messages) = 1

(***************************************************************************)
(* C13: validation is complete.  For a readable container with at least    *)
(* one sheet other than "ALL" that violates a rule, the messages are one   *)
(* missing-columns message for every sheet lacking a required column and   *)
(* one empty message for every sheet without rows, each naming its sheet,  *)
(* all distinct; two sheets lacking columns give two such messages.        *)
(***************************************************************************)
LacksColumns(i) == ~\A c \in {"ObjectName", "FieldName", "Value"} :
                        Contains(xlsx_file.sheets[i].columns, c)

HasNoRows(i) == xlsx_file.sheets[i].rows = <<>>

Names(msg, i) == HasSubstring(msg, "'" \o xlsx_file.sheets[i].name \o "'")

C13_ValidationComplete ==
    (/\ validation.done /\ xlsx_file.exists /\ xlsx_file.readable
     /\ \E i \in EditSheets : LacksColumns(i) \/ HasNoRows(i))
    => LET msgs == validation.messages
           lacking == {i \in EditSheets : LacksColumns(i)}
           rowless == {i \in EditSheets : HasNoRows(i)}
       IN  /\ Len(msgs) = Cardinality(lacking) + Cardinality(rowless)
           /\ \A j, k \in 1..Len(msgs) : j # k => msgs[j] # msgs[k]
           /\ \A i \in lacking :
                 \E k \in 1..Len(msgs) :
                     Names(msgs[k], i) /\ HasSubstring(msgs[k], "missing columns")
           /\ \A i \in rowless :
                 \E k \in 1..Len(msgs) :
                     Names(msgs[k], i) /\ HasSubstring(msgs[k], "is empty")

C13_Witness ==
    /\ validation.done /\ xlsx_file.exists /\ xlsx_file.readable
    /\ Cardinality(EditSheets) = 2
    /\ \A i \in EditSheets : LacksColumns(i) /\ ~HasNoRows(i)
    /\ Len(validation.messages) = 2
    /\ validation.messages[1] # validation.messages[2]
    /\ \A k \in 1..2 : HasSubstring(validation.messages[k], "missing columns: ['Value']")

(***************************************************************************)
(* C19: the application's update flow checks for the critical failure.     *)
(* Whenever the update returned stats carrying a critical error (this run  *)
(* wrote no output), the application shows no success and offers no model  *)
(* text for download, also when an earlier run left a file at the output   *)
(* path.                                                                   *)
(***************************************************************************)
HasCriticalError(st) ==
    \E k \in 1..Len(st.errors) : HasSubstring(st.errors[k], "Critical error during IDF update")

C19_AppChecksCriticalFailure ==
    (pc = "reported" /\ HasCriticalError(stats))
    => /\ ~shown.success
       /\ shown.download = NoFile

(***************************************************************************)
(* C14: schema-driven field alignment of extract_idf_data.                 *)
(***************************************************************************)
RECURSIVE SumWidths(_, _)
SumWidths(objects, field_names) ==
    IF objects = <<>> THEN 0
    ELSE Min(Len(Head(objects)), Len(field_names)) + SumWidths(Tail(objects), field_names)

\* the k-th record of an entry is the record of the position it came from
Aligned(entry) ==
    LET objects == Orig[entry.obj_type]
        fields == IddFieldNames(idd_path)[entry.obj_type]
    IN  \A k \in 1..Len(entry.data) :
            LET o == RecordOrigin(objects, fields, 1, k)
            IN  /\ entry.data[k].FieldName = fields[o.p]
                /\ entry.data[k].Value = objects[o.n][o.p]
                /\ entry.data[k].ObjectName =
                      (IF HasName(fields) THEN objects[o.n][2] ELSE "N/A")

Extracted == extracted.returned /\ ~extracted.none

ExtractedKeys == {extracted.data[i].obj_type : i \in 1..Len(extracted.data)}

C15_EmptyTypesOmitted ==
    Extracted =>
        /\ ExtractedKeys = {T \in DOMAIN Orig : Orig[T] # <<>>}
        /\ Cardinality(ExtractedKeys) = Len(extracted.data)
        /\ \A i \in 1..Len(extracted.data) : extracted.data[i].data # <<>>

C15_Witness ==
    /\ Extracted
    /\ idd_path = "V1.idd"
    /\ Orig["ZONE"] = <<>>
    /\ ExtractedKeys = {"VERSION", "WALL:EXT"}

(***************************************************************************)
(* C16: sheet-name collisions are detected.  When two distinct object      *)
(* types of the extracted data have the same sanitized sheet name, the     *)
(* records of both remain retrievable from the written container: each has *)
(* a sheet holding exactly its records.                                    *)
(***************************************************************************)
Collide(i, j) ==
    /\ i # j
    /\ SanitizeSheetName(extracted.data[i].obj_type)
          = SanitizeSheetName(extracted.data[j].obj_type)

SheetRecords(sheet) ==
    [k \in 1..Len(sheet.rows) |->
        [ObjectName |-> sheet.rows[k].ObjectName, FieldName |-> sheet.rows[k].FieldName,
         Value |-> sheet.rows[k].Value, Unit |-> sheet.rows[k].Unit]]

Retrievable(entry) ==
    \E s \in 1..Len(xlsx_file.sheets) :
        /\ xlsx_file.sheets[s].name # "ALL"
        /\ xlsx_file.sheets[s].columns = TypeColumns
        /\ SheetRecords(xlsx_file.sheets[s]) = entry.data

C16_CollisionsDetected ==
    (Extracted /\ pc = "edit")
    => \A i, j \in 1..Len(extracted.data) :
          Collide(i, j) => Retrievable(extracted.data[i]) /\ Retrievable(extracted.data[j])

(***************************************************************************)
(* C17: the "ALL" sheet has no influence on an update.  Two calls with the *)
(* same original model and IDD whose containers have the same sheets other *)
(* than "ALL" return the same stats and write the same output text.        *)
(***************************************************************************)
SameButAll ==
    /\ prev.made
    /\ idf_file = prev.idf_file
    /\ idd_path = prev.idd_path
    /\ xlsx_file.exists = prev.xlsx_file.exists
    /\ xlsx_file.exists =>
          /\ xlsx_file.readable = prev.xlsx_file.readable
          /\ ObjectSheets(xlsx_file) = ObjectSheets(prev.xlsx_file)

C17_AllSheetNoInfluence ==
    (pc = "done" /\ SameButAll)
    => /\ outcome = prev.outcome
       /\ stats = prev.stats
       /\ out_file = prev.out_file

C17_Witness ==
    /\ pc = "done" /\ SameButAll
    /\ xlsx_file # prev.xlsx_file
    /\ \E i \in 1..Len(xlsx_file.sheets) :
          xlsx_file.sheets[i].name = "ALL" /\ xlsx_file.sheets[i].rows # <<>>
    /\ \A i \in 1..Len(prev.xlsx_file.sheets) : prev.xlsx_file.sheets[i].name # "ALL"
    /\ stats.successful_updates > 0 /\ stats.failed_updates > 0
    /\ stats = prev.stats /\ out_file = prev.out_file /\ out_file.exists

(***************************************************************************)
(* C18: operations share no mutable state.  A call returns what it would   *)
(* return as the only call of a fresh process: a call whose files exist,   *)
(* whose model parses under its IDD and whose container is read returns    *)
(* stats without a critical error and writes the output, whatever calls    *)
(* were made before it in the process.                                     *)
(***************************************************************************)
CallInputsGood ==
    /\ idf_file.exists /\ xlsx_file.exists /\ idd_exists
    /\ ParseOk(idf_file, idd_path)
    /\ ReadExcelOk(xlsx_file)

C18_NoSharedState ==
    (pc = "done" /\ CallInputsGood)
    => /\ outcome = "returned"
       /\ ~HasCriticalError(stats)
       /\ out_file.exists

(***************************************************************************)
(* C20: UpdateStats stays consistent with its logs in every state of an    *)
(* update run: total_updates = successful_updates = number of entries of   *)
(* updated_objects, failed_updates = number of warnings plus number of     *)
(* row-level errors, every UpdateRecord has old_value # new_value, and no  *)
(* step lowers a counter or shortens a log.                                *)
(***************************************************************************)
RowLevelErrors(st) ==
    Cardinality({k \in 1..Len(st.errors) :
                    ~HasSubstring(st.errors[k], "Critical error during IDF update")})

IsPrefix(a, b) == Len(a) <= Len(b) /\ SubSeq(b, 1, Len(a)) = a

StatsConsistent ==
    /\ stats.total_updates = stats.successful_updates
    /\ stats.successful_updates = Len(stats.updated_objects)
    /\ stats.failed_updates = Len(stats.warnings) + RowLevelErrors(stats)
    /\ \A k \in 1..Len(stats.updated_objects) :
          stats.updated_objects[k].old_value # stats.updated_objects[k].new_value

StatsGrow ==
    /\ stats'.total_updates >= stats.total_updates
    /\ stats'.successful_updates >= stats.successful_updates
    /\ stats'.failed_updates >= stats.failed_updates
    /\ IsPrefix(stats.warnings, stats'.warnings)
    /\ IsPrefix(stats.errors, stats'.errors)
    /\ IsPrefix(stats.updated_objects, stats'.updated_objects)

C20_StatsConsistent == [](StatsConsistent) /\ [][StatsGrow]_vars

C20_Witness ==
    /\ pc = "done" /\ outcome = "returned"
    /\ stats.failed_updates = 2
    /\ Len(stats.warnings) = 1 /\ Len(stats.errors) = 1
    /\ RowLevelErrors(stats) = 1

====
